---- MODULE Spec2Model ----
(***************************************************************************)
(* Credential store and record store of the desktop application           *)
(* (src/main.py): class Database over three SQLite tables, class           *)
(* Validator, and the handlers of class ModernApp that call into them.     *)
(*                                                                         *)
(* Text values are sequences of character codes (ASCII), so that split,    *)
(* strip and the character classes of the validators are computed as the   *)
(* code computes them.  Timestamps are the value of a one-second clock.    *)
(***************************************************************************)
EXTENDS Integers, Sequences, FiniteSets, TLC

VARIABLES users, user_data, login_attempts, clock, current_user, lastCall,
          conns

vars == <<users, user_data, login_attempts, clock, current_user, lastCall,
          conns>>

----------------------------------------------------------------------------
(* Bounds of the model.                                                    *)

MaxUsers == 2
MaxRecords == 2
MaxClock == 1
MaxLen == 2

----------------------------------------------------------------------------
(* Text.                                                                   *)

\* Python None / SQL NULL for a text value; -1 is no character code.
None == <<-1>>
\* SQL NULL for a timestamp or an integer column.
NULL == -1

Dollar == 36
Space == 32
Underscore == 95
AtSign == 64
Dot == 46

Str_bob == <<98, 111, 98>>
Str_amy == <<97, 109, 121>>
Str_Passw0rd == <<80, 97, 115, 115, 119, 48, 114, 100>>
Str_wrong == <<119, 114, 111, 110, 103>>
Str_email == <<97, 64, 98, 46, 99, 111>>
Str_General == <<71, 101, 110, 101, 114, 97, 108>>
Str_Work == <<87, 111, 114, 107>>
Str_T == <<84>>
Str_B == <<66>>
Empty == <<>>

\* Every string of length at most n over the alphabet A.
StringsUpTo(A, n) == UNION {[1..k -> A] : k \in 0..n}

----------------------------------------------------------------------------
(* Database.hash_password and Database.verify_password.                    *)

\* hashlib.pbkdf2_hmac('sha256', password, salt, 100000).hex(): the digest
\* is modelled collision-free, as an encoding of (password, salt) over
\* digest symbols (codes above 255), none of which is '$'.
pbkdf2_hmac_hex(password, salt) ==
    [i \in 1..Len(password) |-> 256 + password[i]] \o <<256>>
        \o [i \in 1..Len(salt) |-> 256 + salt[i]]

\* secrets.token_hex(16): the salts the program draws ("a1", "b2").
TokenHex == {<<97, 49>>, <<98, 50>>}

hash_password_nopw(password, salt) ==
    salt \o <<Dollar>> \o pbkdf2_hmac_hex(Empty, salt)

\* f"{salt}${hashed.hex()}"
hash_password(password, salt) ==
    salt \o <<Dollar>> \o pbkdf2_hmac_hex(password, salt)

\* str.split(sep) for a one-character separator.
RECURSIVE split(_, _)
split(s, sep) ==
    IF \A i \in 1..Len(s) : s[i] # sep
    THEN <<s>>
    ELSE LET i == CHOOSE k \in 1..Len(s) :
                      s[k] = sep /\ \A j \in 1..(k - 1) : s[j] # sep
         IN  <<SubSeq(s, 1, i - 1)>> \o split(SubSeq(s, i + 1, Len(s)), sep)

verify_password_saltOnly(stored_password, provided_password) ==
    LET parts == split(stored_password, Dollar)
    IN  IF Len(parts) # 2
        THEN [raised |-> TRUE, value |-> FALSE]
        ELSE [raised |-> FALSE,
              value |-> split(hash_password(provided_password, parts[1]),
                              Dollar)[1] = parts[1]]

\* salt, hashed = stored_password.split('$') raises ValueError unless the
\* split yields exactly two parts.
verify_password(stored_password, provided_password) ==
    LET parts == split(stored_password, Dollar)
    IN  IF Len(parts) # 2
        THEN [raised |-> TRUE, value |-> FALSE]
        ELSE [raised |-> FALSE,
              value |-> hash_password(provided_password, parts[1])
                            = stored_password]

----------------------------------------------------------------------------
(* Tables (Database.create_tables).                                        *)

\* A row of users.  id is AUTOINCREMENT; no row is ever deleted, so the next
\* id is the number of rows plus one.  is_active DEFAULT 1, last_login NULL.
\* (users.created_at is written by its DEFAULT and read by no statement; the
\* row leaves it out.)
UserRow(id, username, password, email) ==
    [id |-> id, username |-> username, password |-> password,
     email |-> email, last_login |-> NULL, is_active |-> 1]

\* A row of user_data; created_at and updated_at DEFAULT CURRENT_TIMESTAMP.
DataRow(id, user_id, title, data, category, now) ==
    [id |-> id, user_id |-> user_id, title |-> title, data |-> data,
     category |-> category, created_at |-> now, updated_at |-> now]

\* users: username TEXT UNIQUE NOT NULL, email TEXT UNIQUE (NULLs are
\* distinct from each other in a UNIQUE column).
UsersConstraintsHold_noUnique(rows) ==
    \A i \in 1..Len(rows) : rows[i].username # None

UsersConstraintsHold(rows) ==
    /\ \A i \in 1..Len(rows) : rows[i].username # None
    /\ \A i, j \in 1..Len(rows) :
           i # j => /\ rows[i].username # rows[j].username
                    /\ (rows[i].email # None => rows[i].email # rows[j].email)

\* user_data: FOREIGN KEY (user_id) REFERENCES users (id), with
\* PRAGMA foreign_keys = ON; a NULL user_id references nothing.
ForeignKeyHolds(user_id) ==
    user_id = NULL \/ \E i \in 1..Len(users) : users[i].id = user_id

----------------------------------------------------------------------------
(* Database.register_user.                                                 *)

UserExists_usernameOnly(username, email) ==
    \E i \in 1..Len(users) : users[i].username = username

UserExists_emailOnly(username, email) ==
    \E i \in 1..Len(users) :
        email # None /\ users[i].email # None /\ users[i].email = email

\* SELECT id FROM users WHERE username = ? OR email = ?  finds a row.
\* A comparison with NULL is never true; the empty string compares equal
\* to the empty string.
UserExists(username, email) ==
    \E i \in 1..Len(users) :
        \/ users[i].username = username
        \/ (email # None /\ users[i].email # None /\ users[i].email = email)

\* The outcome of register_user with the salt that hash_password draws.
register_user(username, password, email, salt) ==
    IF UserExists(username, email)
    THEN [users |-> users, ok |-> FALSE, msg |-> "DuplicateUser"]
    ELSE LET row == UserRow(Len(users) + 1, username,
                            hash_password(password, salt), email)
             rows == Append(users, row)
         IN  IF UsersConstraintsHold(rows)
             THEN [users |-> rows, ok |-> TRUE, msg |-> "RegistrationOk"]
             ELSE \* sqlite3.IntegrityError, caught as sqlite3.Error
                  [users |-> users, ok |-> FALSE, msg |-> "DatabaseError"]

----------------------------------------------------------------------------
(* Database.login_user.                                                    *)

ActiveUsers_anyStatus(username) ==
    {i \in 1..Len(users) : users[i].username = username}

\* SELECT ... FROM users WHERE username = ? AND is_active = 1
ActiveUsers(username) ==
    {i \in 1..Len(users) :
        users[i].username = username /\ users[i].is_active = 1}

login_user_noStamp(username, password) ==
    LET found == ActiveUsers(username)
    IN  IF found = {}
        THEN [users |-> users, ok |-> FALSE, msg |-> "NotFoundOrInactive",
              value |-> <<>>]
        ELSE LET i == CHOOSE k \in found : TRUE
             IN  IF verify_password(users[i].password, password).value
                 THEN [users |-> users, ok |-> TRUE, msg |-> "",
                       value |-> <<[id |-> users[i].id,
                                    username |-> users[i].username]>>]
                 ELSE [users |-> users, ok |-> FALSE, msg |-> "WrongPassword",
                       value |-> <<>>]

\* The outcome of login_user.  A ValueError of verify_password is not a
\* sqlite3.Error and leaves the method uncaught.
login_user(username, password) ==
    LET found == ActiveUsers(username)
    IN  IF found = {}
        THEN [users |-> users, ok |-> FALSE, msg |-> "NotFoundOrInactive",
              value |-> <<>>]
        ELSE LET i == CHOOSE k \in found : TRUE
                 v == verify_password(users[i].password, password)
             IN  IF v.raised
                 THEN [users |-> users, ok |-> FALSE, msg |-> "ValueError",
                       value |-> <<>>]
                 ELSE IF v.value
                 THEN [users |-> [users EXCEPT ![i].last_login = clock],
                       ok |-> TRUE, msg |-> "",
                       value |-> <<[id |-> users[i].id,
                                    username |-> users[i].username]>>]
                 ELSE [users |-> users, ok |-> FALSE, msg |-> "WrongPassword",
                       value |-> <<>>]

----------------------------------------------------------------------------
(* Database.save_user_data and Database.get_user_data.                     *)

\* The outcome of save_user_data: an IntegrityError (foreign key) is caught
\* and reported as False.
save_user_data(user_id, title, data, category) ==
    IF ForeignKeyHolds(user_id)
    THEN [user_data |-> Append(user_data,
                               DataRow(Len(user_data) + 1, user_id, title,
                                       data, category, clock)),
          ok |-> TRUE]
    ELSE [user_data |-> user_data, ok |-> FALSE]

\* The rows the WHERE clause of get_user_data selects.  `if category:` is
\* false for None and for the empty string.
Selected(user_id, category) ==
    IF category # None /\ category # Empty
    THEN {i \in 1..Len(user_data) :
             /\ user_data[i].user_id = user_id
             /\ user_data[i].category = category}
    ELSE {i \in 1..Len(user_data) : user_data[i].user_id = user_id}

Orderings_ascending(S) ==
    {f \in [1..Cardinality(S) -> S] :
        /\ \A a, b \in 1..Cardinality(S) : a # b => f[a] # f[b]
        /\ \A a, b \in 1..Cardinality(S) :
               a < b => user_data[f[a]].created_at <= user_data[f[b]].created_at}

\* ORDER BY created_at DESC: every order of the selected rows in which
\* created_at never increases; rows of one second come in any order.
Orderings(S) ==
    {f \in [1..Cardinality(S) -> S] :
        /\ \A a, b \in 1..Cardinality(S) : a # b => f[a] # f[b]
        /\ \A a, b \in 1..Cardinality(S) :
               a < b => user_data[f[a]].created_at >= user_data[f[b]].created_at}

\* SELECT id, title, data, category, created_at
ResultRow(i) ==
    [id |-> user_data[i].id, title |-> user_data[i].title,
     data |-> user_data[i].data, category |-> user_data[i].category,
     created_at |-> user_data[i].created_at]

----------------------------------------------------------------------------
(* class Validator, and str.strip as the handlers use it.                  *)

Whitespace == {9, 10, 11, 12, 13, Space}

RECURSIVE lstrip(_)
lstrip(s) == IF Len(s) > 0 /\ s[1] \in Whitespace THEN lstrip(Tail(s)) ELSE s

RECURSIVE rstrip(_)
rstrip(s) ==
    IF Len(s) > 0 /\ s[Len(s)] \in Whitespace
    THEN rstrip(SubSeq(s, 1, Len(s) - 1))
    ELSE s

strip(s) == rstrip(lstrip(s))

IsDigit(c) == c \in 48..57
IsUpper(c) == c \in 65..90
IsLetter(c) == c \in 65..90 \/ c \in 97..122
IsAlnum(c) == IsLetter(c) \/ IsDigit(c)

validate_username(username) ==
    IF Len(username) < 3
    THEN [ok |-> FALSE, msg |-> "UsernameTooShort"]
    ELSE IF ~(\A i \in 1..Len(username) :
                  IsAlnum(username[i]) \/ username[i] = Underscore)
    THEN [ok |-> FALSE, msg |-> "UsernameBadChars"]
    ELSE [ok |-> TRUE, msg |-> ""]

validate_password_noUpper(password) ==
    IF Len(password) < 6
    THEN [ok |-> FALSE, msg |-> "PasswordTooShort"]
    ELSE IF ~(\E i \in 1..Len(password) : IsDigit(password[i]))
    THEN [ok |-> FALSE, msg |-> "PasswordNoDigit"]
    ELSE [ok |-> TRUE, msg |-> ""]

validate_password(password) ==
    IF Len(password) < 6
    THEN [ok |-> FALSE, msg |-> "PasswordTooShort"]
    ELSE IF ~(\E i \in 1..Len(password) : IsDigit(password[i]))
    THEN [ok |-> FALSE, msg |-> "PasswordNoDigit"]
    ELSE IF ~(\E i \in 1..Len(password) : IsUpper(password[i]))
    THEN [ok |-> FALSE, msg |-> "PasswordNoUpper"]
    ELSE [ok |-> TRUE, msg |-> ""]

\* ^[a-zA-Z0-9._%+-]+@[a-zA-Z0-9.-]+\.[a-zA-Z]{2,}$
validate_email(email) ==
    LET n == Len(email)
        local(c) == IsAlnum(c) \/ c \in {Dot, Underscore, 37, 43, 45}
        domain(c) == IsAlnum(c) \/ c \in {Dot, 45}
        matches ==
            \E a \in 1..n : \E d \in 1..n :
                /\ email[a] = AtSign /\ email[d] = Dot
                /\ a > 1 /\ d > a + 1 /\ n - d >= 2
                /\ \A i \in 1..(a - 1) : local(email[i])
                /\ \A i \in (a + 1)..(d - 1) : domain(email[i])
                /\ \A i \in (d + 1)..n : IsLetter(email[i])
    IN  IF matches THEN [ok |-> TRUE, msg |-> ""]
        ELSE [ok |-> FALSE, msg |-> "BadEmail"]

----------------------------------------------------------------------------
(* State.                                                                  *)

\* self.current_user = None
NoUser == [id |-> NULL, username |-> None]

Call(op, args, ok, msg, value) ==
    [op |-> op, args |-> args, ok |-> ok, msg |-> msg, value |-> value]

\* Two Database objects opened on one users.db, each with its own
\* sqlite3 connection.
Conns == {1, 2}

\* A connection between calls: no register_user in progress, no write
\* transaction open, nothing returned yet.
IdleConn ==
    [pc |-> "idle", username |-> None, password |-> None, email |-> None,
     hashed |-> None, lock |-> FALSE,
     returned |-> [username |-> None, ok |-> FALSE, msg |-> "", error |-> ""]]

\* Inputs of the calls.
Usernames == {Str_bob, Str_amy}
Passwords == {Str_Passw0rd, Str_wrong}
Emails == {Empty, Str_email}
UserIds == 1..(MaxUsers + 1)
Categories == {Empty, Str_Work}
Filters == {None, Empty, Str_Work, Str_General}

\* What the entry widgets can hold: " bob", "amy", "ab"; "Passw0rd",
\* "abcdef"; "", "a@b.co"; "T", ""; " ", "Work".
UiUsernames == {<<Space>> \o Str_bob, Str_amy, <<97, 98>>}
UiPasswords == {Str_Passw0rd, <<97, 98, 99, 100, 101, 102>>}
UiEmails == {Empty, Str_email}
UiTitles == {Str_T, Empty}
UiCategories == {<<Space>>, Str_Work}

\* users.db is opened with CREATE TABLE IF NOT EXISTS: the file is new, or
\* it holds the account "amy" of an earlier run, blocked since
\* (is_active = 0) by an administrator.
BlockedRow ==
    [UserRow(1, Str_amy, hash_password(Str_Passw0rd, <<97, 49>>), None)
        EXCEPT !.is_active = 0]

Init ==
    /\ users \in {<<>>, <<BlockedRow>>}
    /\ user_data = <<>>
    /\ login_attempts = <<>>
    /\ clock = 0
    /\ current_user = NoUser
    /\ lastCall = Call("init", <<>>, TRUE, "", <<>>)
    /\ conns = [c \in Conns |-> IdleConn]

\* One second passes (CURRENT_TIMESTAMP has a resolution of one second).
Tick ==
    /\ clock < MaxClock
    /\ clock' = clock + 1
    /\ UNCHANGED <<conns, users, user_data, login_attempts, current_user, lastCall>>

----------------------------------------------------------------------------
(* Calls on the Database object.                                           *)

RegisterUser(username, password, email) ==
    \E salt \in TokenHex :
        LET r == register_user(username, password, email, salt)
        IN  /\ Len(r.users) <= MaxUsers
            /\ users' = r.users
            /\ lastCall' = Call("register_user", <<username, password, email>>,
                                r.ok, r.msg, <<>>)
            /\ UNCHANGED <<conns, user_data, login_attempts, clock, current_user>>

LoginUser(username, password) ==
    LET r == login_user(username, password)
    IN  /\ users' = r.users
        /\ lastCall' = Call("login_user", <<username, password>>,
                            r.ok, r.msg, r.value)
        /\ UNCHANGED <<conns, user_data, login_attempts, clock, current_user>>

SaveUserData(user_id, title, data, category) ==
    LET r == save_user_data(user_id, title, data, category)
    IN  /\ Len(r.user_data) <= MaxRecords
        /\ user_data' = r.user_data
        /\ lastCall' = Call("save_user_data", <<user_id, title, data, category>>,
                            r.ok, "", <<>>)
        /\ UNCHANGED <<conns, users, login_attempts, clock, current_user>>

\* save_user_data(user_id, title, data): category takes its default.
SaveUserDataDefault(user_id, title, data) ==
    LET r == save_user_data(user_id, title, data, Str_General)
    IN  /\ Len(r.user_data) <= MaxRecords
        /\ user_data' = r.user_data
        /\ lastCall' = Call("save_user_data", <<user_id, title, data>>,
                            r.ok, "", <<>>)
        /\ UNCHANGED <<conns, users, login_attempts, clock, current_user>>

GetUserData(user_id, category) ==
    \E f \in Orderings(Selected(user_id, category)) :
        /\ lastCall' = Call("get_user_data", <<user_id, category>>, TRUE, "",
                            [k \in DOMAIN f |-> ResultRow(f[k])])
        /\ UNCHANGED <<conns, users, user_data, login_attempts, clock, current_user>>

----------------------------------------------------------------------------
(* Handlers of ModernApp.                                                  *)

Login(rawUsername, password) ==
    LET username == strip(rawUsername)
    IN  IF Len(username) = 0 \/ Len(password) = 0
        THEN /\ lastCall' = Call("login", <<rawUsername, password>>, FALSE,
                                 "FillAllFields", <<>>)
             /\ UNCHANGED <<conns, users, user_data, login_attempts, clock,
                            current_user>>
        ELSE LET r == login_user(username, password)
             IN  /\ users' = r.users
                 /\ current_user' = IF r.ok THEN r.value[1] ELSE current_user
                 /\ lastCall' = Call("login", <<rawUsername, password>>,
                                     r.ok, r.msg, r.value)
                 /\ UNCHANGED <<conns, user_data, login_attempts, clock>>

Register(rawUsername, password, confirm_password, rawEmail) ==
    LET username == strip(rawUsername)
        email == strip(rawEmail)
        args == <<rawUsername, password, confirm_password, rawEmail>>
        refuse(msg) ==
            /\ lastCall' = Call("register", args, FALSE, msg, <<>>)
            /\ UNCHANGED <<conns, users, user_data, login_attempts, clock,
                           current_user>>
    IN  IF ~validate_username(username).ok
        THEN refuse(validate_username(username).msg)
        ELSE IF ~validate_password(password).ok
        THEN refuse(validate_password(password).msg)
        ELSE IF password # confirm_password
        THEN refuse("PasswordMismatch")
        ELSE IF Len(email) > 0 /\ ~validate_email(email).ok
        THEN refuse(validate_email(email).msg)
        ELSE \E salt \in TokenHex :
                 LET r == register_user(username, password, email, salt)
                 IN  /\ Len(r.users) <= MaxUsers
                     /\ users' = r.users
                     /\ lastCall' = Call("register", args, r.ok, r.msg, <<>>)
                     /\ UNCHANGED <<conns, user_data, login_attempts, clock,
                                    current_user>>

SaveData(rawTitle, rawCategory, rawContent) ==
    LET title == strip(rawTitle)
        category == IF Len(strip(rawCategory)) > 0 THEN strip(rawCategory)
                    ELSE Str_General
        content == strip(rawContent)
        args == <<rawTitle, rawCategory, rawContent>>
    IN  IF current_user = NoUser
        THEN /\ lastCall' = Call("save_data", args, FALSE, "NotLoggedIn", <<>>)
             /\ UNCHANGED <<conns, users, user_data, login_attempts, clock,
                            current_user>>
        ELSE IF Len(title) = 0 \/ Len(content) = 0
        THEN /\ lastCall' = Call("save_data", args, FALSE, "FillTitleAndContent",
                                 <<>>)
             /\ UNCHANGED <<conns, users, user_data, login_attempts, clock,
                            current_user>>
        ELSE LET r == save_user_data(current_user.id, title, content, category)
             IN  /\ Len(r.user_data) <= MaxRecords
                 /\ user_data' = r.user_data
                 /\ lastCall' = Call("save_data", args, r.ok,
                                     IF r.ok THEN "DataSaved" ELSE "SaveFailed",
                                     <<>>)
                 /\ UNCHANGED <<conns, users, login_attempts, clock, current_user>>

\* The rows show_data_list has put on screen, each with its edit and delete
\* buttons: the records of the logged-in user.
Listed(data_id) ==
    /\ current_user # NoUser
    /\ \E i \in 1..Len(user_data) :
           /\ user_data[i].id = data_id
           /\ user_data[i].user_id = current_user.id

\* show_data_list(category): the table that get_user_data fills.
ShowDataList(category) ==
    /\ current_user # NoUser
    /\ \E f \in Orderings(Selected(current_user.id, category)) :
           lastCall' = Call("show_data_list", <<category>>, TRUE, "",
                            [k \in DOMAIN f |-> ResultRow(f[k])])
    /\ UNCHANGED <<conns, users, user_data, login_attempts, clock, current_user>>

\* Shows "Функция редактирования в разработке" and does nothing else.
EditData(data_id) ==
    /\ Listed(data_id)
    /\ lastCall' = Call("edit_data", <<data_id>>, TRUE, "EditInDevelopment", <<>>)
    /\ UNCHANGED <<conns, users, user_data, login_attempts, clock, current_user>>

DeleteData_real(data_id, confirmed) ==
    LET Keep(r) == r.id # data_id
    IN  /\ Listed(data_id)
        /\ user_data' = IF confirmed THEN SelectSeq(user_data, Keep)
                        ELSE user_data
        /\ UNCHANGED <<conns, users, login_attempts, clock, current_user>>
        /\ IF confirmed
           THEN \E f \in Orderings(Selected(current_user.id, None))' :
                    lastCall' = Call("delete_data", <<data_id>>, TRUE,
                                     "RecordDeleted",
                                     [k \in DOMAIN f |-> ResultRow(f[k])'])
           ELSE lastCall' = Call("delete_data", <<data_id>>, FALSE, "", <<>>)

\* askyesno; on yes shows "Запись удалена" and then show_data_list(), whose
\* table is kept as the value of the call.  No statement touches user_data.
DeleteData(data_id, confirmed) ==
    /\ Listed(data_id)
    /\ UNCHANGED <<conns, users, user_data, login_attempts, clock, current_user>>
    /\ IF confirmed
       THEN \E f \in Orderings(Selected(current_user.id, None))' :
                lastCall' = Call("delete_data", <<data_id>>, TRUE,
                                 "RecordDeleted",
                                 [k \in DOMAIN f |-> ResultRow(f[k])'])
       ELSE lastCall' = Call("delete_data", <<data_id>>, FALSE, "", <<>>)

Logout_keepUser ==
    /\ current_user' = current_user
    /\ lastCall' = Call("logout", <<>>, TRUE, "", <<>>)
    /\ UNCHANGED <<conns, users, user_data, login_attempts, clock>>

Logout ==
    /\ current_user' = NoUser
    /\ lastCall' = Call("logout", <<>>, TRUE, "", <<>>)
    /\ UNCHANGED <<conns, users, user_data, login_attempts, clock>>

----------------------------------------------------------------------------
(* Specifications.  The credential store and the record store share the    *)
(* users table only through reads (the foreign key of user_data, the       *)
(* look-up of login_user), so each is explored on its own.                 *)

\* The credential store: registration and login, from a new or an earlier
\* users.db.
Next ==
    \/ Tick
    \/ \E u \in Usernames, p \in Passwords, e \in Emails : RegisterUser(u, p, e)
    \/ \E u \in Usernames, p \in Passwords : LoginUser(u, p)
    \/ \E u \in UiUsernames, p \in UiPasswords, c \in UiPasswords,
          e \in UiEmails : Register(u, p, c, e)

Spec == Init /\ [][Next]_vars

\* users.db of an earlier run in which "bob" and "amy" registered.
RegisteredUsers ==
    << UserRow(1, Str_bob, hash_password(Str_Passw0rd, <<97, 49>>), Str_email),
       UserRow(2, Str_amy, hash_password(Str_Passw0rd, <<98, 50>>), Empty) >>

InitRegistered ==
    /\ users = RegisteredUsers
    /\ user_data = <<>>
    /\ login_attempts = <<>>
    /\ clock = 0
    /\ current_user = NoUser
    /\ lastCall = Call("init", <<>>, TRUE, "", <<>>)
    /\ conns = [c \in Conns |-> IdleConn]

\* The record store, called directly.
NextRecords ==
    \/ Tick
    \/ \E i \in UserIds, c \in Categories : SaveUserData(i, Str_T, Str_B, c)
    \/ \E i \in UserIds : SaveUserDataDefault(i, Str_T, Str_B)
    \/ \E i \in UserIds, c \in Filters : GetUserData(i, c)

SpecRecords == InitRegistered /\ [][NextRecords]_vars

\* The application: its handlers, in any order.
NextApp ==
    \/ Tick
    \/ \E u \in UiUsernames, p \in UiPasswords \cup {Empty} : Login(u, p)
    \/ \E t \in UiTitles, c \in UiCategories : SaveData(t, c, Str_B)
    \/ \E c \in {None, Str_Work} : ShowDataList(c)
    \/ \E d \in 1..MaxRecords : EditData(d)
    \/ \E d \in 1..MaxRecords, yes \in BOOLEAN : DeleteData(d, yes)
    \/ Logout

SpecApp == InitRegistered /\ [][NextApp]_vars

\* register_user on two connections, statement by statement.  The SELECT
\* reads the committed rows.  The INSERT opens a write transaction, which
\* SQLite grants to one connection at a time; commit() ends it.  An INSERT
\* that fails its constraint leaves the transaction of its connection open,
\* since register_user returns from the except branch without a rollback.
RaceCheck(c, username, password, email) ==
    /\ conns[c].pc = "idle"
    /\ IF UserExists(username, email)
       THEN conns' = [conns EXCEPT ![c].returned =
                         [username |-> username, ok |-> FALSE,
                          msg |-> "DuplicateUser", error |-> ""]]
       ELSE conns' = [conns EXCEPT ![c].pc = "checked",
                                   ![c].username = username,
                                   ![c].password = password,
                                   ![c].email = email]
    /\ UNCHANGED <<users, user_data, login_attempts, clock, current_user,
                   lastCall>>

RaceInsert(c) ==
    /\ conns[c].pc = "checked"
    /\ \E salt \in TokenHex :
           LET hashed == hash_password(conns[c].password, salt)
               row == UserRow(Len(users) + 1, conns[c].username, hashed,
                              conns[c].email)
               fails(error) ==
                   [username |-> conns[c].username, ok |-> FALSE,
                    msg |-> "DatabaseError", error |-> error]
           IN  IF \E d \in Conns \ {c} : conns[d].lock
               THEN \* sqlite3.OperationalError once the busy timeout ends
                    conns' = [conns EXCEPT ![c].pc = "idle",
                                           ![c].returned = fails("locked")]
               ELSE IF UsersConstraintsHold(Append(users, row))
               THEN conns' = [conns EXCEPT ![c].pc = "inserted",
                                           ![c].hashed = hashed,
                                           ![c].lock = TRUE]
               ELSE \* sqlite3.IntegrityError
                    conns' = [conns EXCEPT ![c].pc = "idle",
                                           ![c].lock = TRUE,
                                           ![c].returned = fails("unique")]
    /\ UNCHANGED <<users, user_data, login_attempts, clock, current_user,
                   lastCall>>

RaceCommit(c) ==
    /\ conns[c].pc = "inserted"
    /\ Len(users) < MaxUsers
    /\ users' = Append(users, UserRow(Len(users) + 1, conns[c].username,
                                      conns[c].hashed, conns[c].email))
    /\ conns' = [conns EXCEPT ![c].pc = "idle",
                              ![c].hashed = None,
                              ![c].lock = FALSE,
                              ![c].returned =
                                  [username |-> conns[c].username, ok |-> TRUE,
                                   msg |-> "RegistrationOk", error |-> ""]]
    /\ UNCHANGED <<user_data, login_attempts, clock, current_user, lastCall>>

NextRace ==
    \/ \E c \in Conns, u \in Usernames, e \in Emails :
           RaceCheck(c, u, Str_Passw0rd, e)
    \/ \E c \in Conns : RaceInsert(c)
    \/ \E c \in Conns : RaceCommit(c)

SpecRace == Init /\ [][NextRace]_vars

\* The registration form: what its four entries can hold.  " bob", "amy",
\* "ab", "bo!"; "Passw0rd", "Ab1", "Abcdef", "abcde1"; "", "a@b.co", "a@b".
RegUsernames == {<<Space>> \o Str_bob, Str_amy, <<97, 98>>, <<98, 111, 33>>}
RegPasswords == {Str_Passw0rd, <<65, 98, 49>>, <<65, 98, 99, 100, 101, 102>>,
                 <<97, 98, 99, 100, 101, 49>>}
RegEmails == {Empty, Str_email, <<97, 64, 98>>}

NextRegister ==
    \E u \in RegUsernames, p \in RegPasswords, c \in RegPasswords,
       e \in RegEmails : Register(u, p, c, e)

SpecRegister == Init /\ [][NextRegister]_vars

\* hash_password and verify_password applied to every password, candidate
\* and salt of at most MaxLen characters over {'a', '$'}.
HashAlphabet == {97, Dollar}

HashPassword(password, salt) ==
    /\ lastCall' = Call("hash_password", <<password, salt>>, TRUE, "",
                        <<hash_password(password, salt)>>)
    /\ UNCHANGED <<conns, users, user_data, login_attempts, clock, current_user>>

\* verify_password on the string the last hash_password call returned.
VerifyPassword(candidate) ==
    /\ lastCall.op = "hash_password"
    /\ LET v == verify_password(lastCall.value[1], candidate)
       IN  lastCall' = Call("verify_password", <<lastCall.value[1], candidate>>,
                            ~v.raised,
                            IF v.raised THEN "ValueError"
                            ELSE IF v.value THEN "True" ELSE "False",
                            <<>>)
    /\ UNCHANGED <<conns, users, user_data, login_attempts, clock, current_user>>

NextHash ==
    \/ \E p \in StringsUpTo(HashAlphabet, MaxLen),
          s \in StringsUpTo(HashAlphabet, MaxLen) : HashPassword(p, s)
    \/ \E q \in StringsUpTo(HashAlphabet, MaxLen) : VerifyPassword(q)

SpecHash == InitRegistered /\ [][NextHash]_vars

----------------------------------------------------------------------------
(* Properties.                                                             *)

Range(s) == {s[i] : i \in 1..Len(s)}

HasUsername(username) == \E i \in 1..Len(users) : users[i].username = username

\* Row i was registered with this password: its stored string is the hash
\* of the password under one of the salts.
RegisteredWith(i, password) ==
    \E salt \in TokenHex : users[i].password = hash_password(password, salt)

\* The call a step made, read from the record of the call it left.
Registers(op) == lastCall'.op = op

\* C1: no two user rows share a username, and a register_user call whose
\* username already exists fails with the duplicate-user message and leaves
\* the users table as it was.
C1_UsernameUnique ==
    [][ /\ \A i, j \in 1..Len(users') :
               i # j => users'[i].username # users'[j].username
        /\ (/\ Registers("register_user")
            /\ RegisterUser(lastCall'.args[1], lastCall'.args[2],
                            lastCall'.args[3])
            /\ HasUsername(lastCall'.args[1]))
               => /\ ~lastCall'.ok
                  /\ lastCall'.msg = "DuplicateUser"
                  /\ users' = users ]_vars

\* C1 witness: the last call was a register_user refused as a duplicate of
\* a username (not of an email), and one row holds that username.
C1_Witness ==
    /\ lastCall.op = "register_user"
    /\ lastCall.msg = "DuplicateUser"
    /\ Cardinality({i \in 1..Len(users) :
                       users[i].username = lastCall.args[1]}) = 1
    /\ \A i \in 1..Len(users) : users[i].email # lastCall.args[3]

\* C2: register_user inserts an active row holding the hash of the given
\* password, and login_user with the username and registration password of
\* an active row succeeds, returns that row's id and username, and leaves
\* its last_login non-NULL.
C2_LoginSucceeds ==
    [][ /\ (/\ Registers("register_user")
            /\ RegisterUser(lastCall'.args[1], lastCall'.args[2],
                            lastCall'.args[3])
            /\ lastCall'.ok)
               => /\ Len(users') = Len(users) + 1
                  /\ users'[Len(users')].username = lastCall'.args[1]
                  /\ users'[Len(users')].is_active = 1
                  /\ \E salt \in TokenHex :
                         users'[Len(users')].password
                             = hash_password(lastCall'.args[2], salt)
        /\ (/\ Registers("login_user")
            /\ LoginUser(lastCall'.args[1], lastCall'.args[2]))
               => \A i \in 1..Len(users) :
                      (/\ users[i].username = lastCall'.args[1]
                       /\ users[i].is_active = 1
                       /\ RegisteredWith(i, lastCall'.args[2]))
                          => /\ lastCall'.ok
                             /\ lastCall'.value
                                    = <<[id |-> users[i].id,
                                         username |-> lastCall'.args[1]]>>
                             /\ users'[i].last_login # NULL ]_vars

\* C2 witness: the last call was a successful login_user of a row that now
\* has a last_login.
C2_Witness ==
    /\ lastCall.op = "login_user"
    /\ lastCall.ok
    /\ \E i \in 1..Len(users) :
           /\ users[i].username = lastCall.args[1]
           /\ RegisteredWith(i, lastCall.args[2])
           /\ users[i].last_login # NULL
           /\ lastCall.value = <<[id |-> users[i].id,
                                  username |-> users[i].username]>>

\* C3: login_user for an active row with a password other than the one it
\* was registered with fails with the wrong-password message and changes
\* no user row.
C3_WrongPassword ==
    [][ (/\ Registers("login_user")
         /\ LoginUser(lastCall'.args[1], lastCall'.args[2]))
            => \A i \in 1..Len(users) :
                   (/\ users[i].username = lastCall'.args[1]
                    /\ users[i].is_active = 1
                    /\ \E p0 \in Passwords :
                           RegisteredWith(i, p0) /\ p0 # lastCall'.args[2])
                       => /\ ~lastCall'.ok
                          /\ lastCall'.msg = "WrongPassword"
                          /\ users' = users ]_vars

\* C3 witness: the last call was a login_user refused for its password,
\* for a row that was never logged in.
C3_Witness ==
    /\ lastCall.op = "login_user"
    /\ lastCall.msg = "WrongPassword"
    /\ \E i \in 1..Len(users) :
           /\ users[i].username = lastCall.args[1]
           /\ ~RegisteredWith(i, lastCall.args[2])
           /\ users[i].last_login = NULL

\* C4 (as claimed): every login_user call appends one login_attempts row
\* with the attempted username and the success flag.
C4_AttemptRecorded ==
    [][ (/\ Registers("login_user")
         /\ LoginUser(lastCall'.args[1], lastCall'.args[2]))
            => /\ Len(login_attempts') = Len(login_attempts) + 1
               /\ login_attempts'[Len(login_attempts')].username
                      = lastCall'.args[1]
               /\ login_attempts'[Len(login_attempts')].success
                      = lastCall'.ok ]_vars

\* C5 (as claimed): register_user reports a duplicate only when a row has
\* the same username or the same non-empty email.
C5_DuplicateOnlyIfTaken ==
    [][ (/\ Registers("register_user")
         /\ RegisterUser(lastCall'.args[1], lastCall'.args[2],
                         lastCall'.args[3])
         /\ lastCall'.msg = "DuplicateUser")
            => \E i \in 1..Len(users) :
                   \/ users[i].username = lastCall'.args[1]
                   \/ (/\ lastCall'.args[3] # Empty
                       /\ users[i].email = lastCall'.args[3]) ]_vars

\* C6: no two rows share a non-empty email, and a register_user call with
\* a free username and a non-empty email that a row already holds fails
\* with the duplicate-user message and inserts nothing.
C6_EmailUnique ==
    [][ /\ \A i, j \in 1..Len(users') :
               (i # j /\ users'[i].email # None /\ users'[i].email # Empty)
                   => users'[i].email # users'[j].email
        /\ (/\ Registers("register_user")
            /\ RegisterUser(lastCall'.args[1], lastCall'.args[2],
                            lastCall'.args[3])
            /\ ~HasUsername(lastCall'.args[1])
            /\ lastCall'.args[3] # Empty
            /\ \E i \in 1..Len(users) : users[i].email = lastCall'.args[3])
               => /\ ~lastCall'.ok
                  /\ lastCall'.msg = "DuplicateUser"
                  /\ users' = users ]_vars

\* C6 witness: the last call was a register_user with a free username,
\* refused because a row holds its non-empty email.
C6_Witness ==
    /\ lastCall.op = "register_user"
    /\ lastCall.msg = "DuplicateUser"
    /\ ~HasUsername(lastCall.args[1])
    /\ lastCall.args[3] # Empty
    /\ \E i \in 1..Len(users) : users[i].email = lastCall.args[3]

\* C7: login_user for a username that no active row holds fails with the
\* not-found-or-inactive message, whatever the password, and changes no
\* user row.
C7_NotFoundOrInactive ==
    [][ (/\ Registers("login_user")
         /\ LoginUser(lastCall'.args[1], lastCall'.args[2])
         /\ ~\E i \in 1..Len(users) :
                /\ users[i].username = lastCall'.args[1]
                /\ users[i].is_active = 1)
            => /\ ~lastCall'.ok
               /\ lastCall'.msg = "NotFoundOrInactive"
               /\ users' = users ]_vars

\* C7 witness: the last call was a login_user with the right password of a
\* blocked account, refused as not found or inactive.
C7_Witness ==
    /\ lastCall.op = "login_user"
    /\ lastCall.msg = "NotFoundOrInactive"
    /\ \E i \in 1..Len(users) :
           /\ users[i].username = lastCall.args[1]
           /\ users[i].is_active = 0
           /\ RegisteredWith(i, lastCall.args[2])

\* C8 (as claimed): verify_password on the hash of password p under any
\* salt returns true exactly when the candidate is p.
C8_VerifyAnySalt ==
    [][ (lastCall.op = "hash_password" /\ Registers("verify_password"))
            => /\ lastCall'.ok
               /\ (lastCall'.msg = "True")
                      <=> (lastCall'.args[2] = lastCall.args[1]) ]_vars

\* C8 (amended): verify_password on the hash of password p under a salt
\* without '$' returns true exactly when the candidate is p.
C8_VerifySaltWithoutSeparator ==
    [][ (/\ lastCall.op = "hash_password"
         /\ Registers("verify_password")
         /\ Dollar \notin Range(lastCall.args[2]))
            => /\ lastCall'.ok
               /\ (lastCall'.msg = "True")
                      <=> (lastCall'.args[2] = lastCall.args[1]) ]_vars

\* C8 witness: a verify_password call that returned true for a candidate
\* containing '$', on a hash with a non-empty salt.
C8_Witness ==
    /\ lastCall.op = "verify_password"
    /\ lastCall.msg = "True"
    /\ Dollar \in Range(lastCall.args[2])
    /\ Len(split(lastCall.args[1], Dollar)[1]) > 0

\* C9 (as claimed): get_user_data(owner) returns exactly the rows of that
\* owner, and get_user_data(owner, category) exactly those of them with
\* that category.
C9_ListExact ==
    [][ (/\ Registers("get_user_data")
         /\ GetUserData(lastCall'.args[1], lastCall'.args[2]))
            => {lastCall'.value[k].id : k \in 1..Len(lastCall'.value)}
                   = {user_data[i].id : i \in
                         {i \in 1..Len(user_data) :
                             /\ user_data[i].user_id = lastCall'.args[1]
                             /\ (lastCall'.args[2] # None
                                    => user_data[i].category
                                           = lastCall'.args[2])}} ]_vars

\* C10 (as claimed): a save with an empty category, by save_user_data or
\* by the save_data handler, stores the category "General".
C10_BlankIsGeneral ==
    [][ /\ (/\ Registers("save_user_data")
            /\ Len(lastCall'.args) = 4
            /\ SaveUserData(lastCall'.args[1], lastCall'.args[2],
                            lastCall'.args[3], lastCall'.args[4])
            /\ lastCall'.args[4] = Empty
            /\ lastCall'.ok)
               => user_data'[Len(user_data')].category = Str_General
        /\ (/\ Registers("save_data")
            /\ SaveData(lastCall'.args[1], lastCall'.args[2],
                        lastCall'.args[3])
            /\ Len(strip(lastCall'.args[2])) = 0
            /\ lastCall'.ok)
               => user_data'[Len(user_data')].category = Str_General ]_vars

\* C11 (as claimed): in the result of get_user_data, a record saved later
\* (a larger id) comes before every record saved earlier.
C11_LaterSaveFirst ==
    [][ (/\ Registers("get_user_data")
         /\ GetUserData(lastCall'.args[1], lastCall'.args[2]))
            => \A a, b \in 1..Len(lastCall'.value) :
                   lastCall'.value[a].id > lastCall'.value[b].id => a < b
      ]_vars

\* C11 (amended): in the result of get_user_data, a record saved in a later
\* second comes before every record saved in an earlier second.
C11_LaterSecondFirst ==
    [][ (/\ Registers("get_user_data")
         /\ GetUserData(lastCall'.args[1], lastCall'.args[2]))
            => \A a, b \in 1..Len(lastCall'.value) :
                   \A i, j \in 1..Len(user_data) :
                       (/\ user_data[i].id = lastCall'.value[a].id
                        /\ user_data[j].id = lastCall'.value[b].id
                        /\ i > j
                        /\ user_data[i].created_at # user_data[j].created_at)
                           => a < b ]_vars

\* C11 witness: the last get_user_data returned two records saved in
\* different seconds, the later one first.
C11_Witness ==
    /\ lastCall.op = "get_user_data"
    /\ Len(lastCall.value) >= 2
    /\ lastCall.value[1].id > lastCall.value[2].id
    /\ lastCall.value[1].created_at > lastCall.value[2].created_at

\* The checks of the registration form, spelled out: a username of at least
\* 3 characters, all letters, digits or '_'; a password of at least 6
\* characters with a digit and an uppercase letter; the confirmation equal.
FormAccepts(username, password, confirm_password) ==
    /\ Len(username) >= 3
    /\ \A i \in 1..Len(username) :
           \/ username[i] \in 48..57
           \/ username[i] \in 65..90
           \/ username[i] \in 97..122
           \/ username[i] = 95
    /\ Len(password) >= 6
    /\ \E i \in 1..Len(password) : password[i] \in 48..57
    /\ \E i \in 1..Len(password) : password[i] \in 65..90
    /\ password = confirm_password

\* C12: a row the register handler inserts holds a username and the hash of
\* a password that pass the checks of the form, and an input that fails a
\* check, or whose confirmation differs, changes no row and gets none of
\* the answers of register_user.
C12_ValidatedRegistration ==
    [][ (/\ Registers("register")
         /\ Register(lastCall'.args[1], lastCall'.args[2], lastCall'.args[3],
                     lastCall'.args[4]))
            => LET username == strip(lastCall'.args[1])
                   accepted == FormAccepts(username, lastCall'.args[2],
                                           lastCall'.args[3])
               IN  /\ users' # users
                          => /\ accepted
                             /\ Len(users') = Len(users) + 1
                             /\ users'[Len(users')].username = username
                             /\ \E salt \in TokenHex :
                                    users'[Len(users')].password
                                        = hash_password(lastCall'.args[2], salt)
                   /\ ~accepted
                          => /\ users' = users
                             /\ lastCall'.msg \notin
                                    {"RegistrationOk", "DuplicateUser",
                                     "DatabaseError"} ]_vars

\* C12 witness: the last call was a register that inserted the row of a
\* username typed with a leading blank.
C12_Witness ==
    /\ lastCall.op = "register"
    /\ lastCall.ok
    /\ strip(lastCall.args[1]) # lastCall.args[1]
    /\ Len(users) > 0
    /\ users[Len(users)].username = strip(lastCall.args[1])
    /\ RegisteredWith(Len(users), lastCall.args[2])

\* C13: whatever the interleaving of two register_user calls on two
\* connections, no two rows share a username, and the two connections never
\* both hold a success for the same username.
C13_RaceSafe ==
    /\ \A i, j \in 1..Len(users) :
           i # j => users[i].username # users[j].username
    /\ \A c, d \in Conns :
           (/\ c # d
            /\ conns[c].returned.ok
            /\ conns[d].returned.ok)
               => conns[c].returned.username # conns[d].returned.username

\* C13 witness: one connection registered a username, and the call of the
\* other for the same username passed its SELECT and failed on the INSERT.
C13_Witness ==
    \E c, d \in Conns :
        /\ c # d
        /\ conns[c].returned.ok
        /\ conns[d].returned.error = "unique"
        /\ conns[d].returned.username = conns[c].returned.username
        /\ Cardinality({i \in 1..Len(users) :
               users[i].username = conns[c].returned.username}) = 1

\* C14: edit_data, and delete_data whether confirmed or not, leave users
\* and user_data as they were, and a list of the owner's records made right
\* after still holds the record with its title, body and category.
C14_EditDeletePlaceholders ==
    [][ (\/ /\ Registers("edit_data")
            /\ EditData(lastCall'.args[1])
         \/ /\ Registers("delete_data")
            /\ DeleteData(lastCall'.args[1], lastCall'.ok))
            => /\ user_data' = user_data
               /\ users' = users
               /\ \A i \in 1..Len(user_data) :
                      user_data[i].id = lastCall'.args[1]
                          => \A f \in Orderings(Selected(user_data[i].user_id,
                                                         None))' :
                                 \E k \in DOMAIN f :
                                     /\ ResultRow(f[k])'.id = user_data[i].id
                                     /\ ResultRow(f[k])'.title = user_data[i].title
                                     /\ ResultRow(f[k])'.data = user_data[i].data
                                     /\ ResultRow(f[k])'.category
                                            = user_data[i].category
               /\ lastCall'.msg = "RecordDeleted"
                      => \E k \in 1..Len(lastCall'.value) :
                             lastCall'.value[k].id = lastCall'.args[1]
      ]_vars

\* C14 witness: a confirmed delete_data has shown its success message, and
\* the table it shows next lists the record.
C14_Witness ==
    /\ lastCall.op = "delete_data"
    /\ lastCall.ok
    /\ lastCall.msg = "RecordDeleted"
    /\ \E k \in 1..Len(lastCall.value), i \in 1..Len(user_data) :
           /\ lastCall.value[k].id = lastCall.args[1]
           /\ user_data[i].id = lastCall.args[1]
           /\ lastCall.value[k].title = user_data[i].title
           /\ lastCall.value[k].data = user_data[i].data
           /\ lastCall.value[k].category = user_data[i].category

\* C15: in the application, current_user becomes a user only by a login
\* that succeeds, and is then the user that login_user returned; it becomes
\* None only by logout, which always sets None; no other handler changes it.
\* user_data changes only by save_data while a user is logged in, by one
\* new row owned by current_user; save_data with no user inserts nothing.
C15_SessionOwnsSaves ==
    [][ /\ current_user' # current_user
            => \/ /\ lastCall'.op = "login"
                  /\ lastCall'.ok
                  /\ current_user' = lastCall'.value[1]
                  /\ current_user' # NoUser
               \/ /\ lastCall'.op = "logout"
                  /\ current_user' = NoUser
        /\ (/\ Registers("login")
            /\ Login(lastCall'.args[1], lastCall'.args[2]))
               => IF lastCall'.ok
                  THEN /\ current_user' = lastCall'.value[1]
                       /\ \E i \in 1..Len(users) :
                              /\ users[i].id = current_user'.id
                              /\ users[i].username = strip(lastCall'.args[1])
                  ELSE current_user' = current_user
        /\ (Registers("logout") /\ Logout) => current_user' = NoUser
        /\ (/\ Registers("save_data")
            /\ SaveData(lastCall'.args[1], lastCall'.args[2],
                        lastCall'.args[3])
            /\ current_user = NoUser)
               => user_data' = user_data
        /\ user_data' # user_data
               => /\ lastCall'.op = "save_data"
                  /\ current_user # NoUser
                  /\ current_user' = current_user
                  /\ Len(user_data') = Len(user_data) + 1
                  /\ SubSeq(user_data', 1, Len(user_data)) = user_data
                  /\ user_data'[Len(user_data')].user_id = current_user.id
      ]_vars

\* C15 witness: two users have logged in one after the other and each has
\* saved a record; the record saved last belongs to the user logged in now.
C15_Witness ==
    /\ lastCall.op = "save_data"
    /\ lastCall.ok
    /\ current_user # NoUser
    /\ Len(user_data) = 2
    /\ user_data[1].user_id # user_data[2].user_id
    /\ user_data[2].user_id = current_user.id

====
